---- MODULE Spec2Model ----
(* Checkout workflow of the shopping API (src/main.py): product lookup,      *)
(* the "products not found" check, pricing, invoice numbering and order      *)
(* persistence, for several request handlers running concurrently.           *)
(*                                                                           *)
(* A decimal amount (a price, a rounded subtotal, tax or total) is counted   *)
(* in thousandths of a currency unit (9.99 is 9990) and stands for the       *)
(* float nearest to it.  The floats the code computes with (line totals and  *)
(* the subtotal accumulator) are IEEE doubles, computed bit for bit.         *)
(* A product_id string is an integer: k > 0 is the lower-case hex spelling   *)
(* of ObjectId k, -1 the upper-case spelling of ObjectId 1, and 0 a string   *)
(* that is not 24 hex digits.                                                *)
(*                                                                           *)
(* product      the "product" collection, identifier -> document             *)
(* orders       the "order" collection, in insertion order                   *)
(* pc           where each checkout call is: idle, lookup, price, insert,    *)
(*              done                                                         *)
(* payload, product_map, priced   the locals of each call                    *)
(* result       the HTTP outcome of each call (status 0: none yet)           *)
(* raised       which step of the call raised a non-HTTP exception           *)
(* attempts     how often the call queried and inserted                      *)
(* oid_*        the ObjectId generator of the server process                 *)
EXTENDS Integers, Sequences, FiniteSets, TLC

\* ------------------------------------------------------------------ bounds
NumCalls == 2
MaxProducts == 2
MaxItems == 2
MaxQty == 3
MaxConcItems == 2
MaxRestarts == 1
MaxIncStart == 1

\* --------------------------------------------------------------- constants
\* tax_rate = 0.1, as the divisor of an exact decimal
TaxDivisor == 10
\* round(x, 2): thousandths in one hundredth
CentStep == 10
\* f"INV-{ObjectId()}"[-8:]
InvoiceLen == 8
\* the 3-byte counter of an ObjectId wraps at 2^24
IncMod == 16777216

VARIABLES product, orders, pc, payload, product_map, priced, result,
          raised, attempts, oid_time, oid_rand, oid_inc

vars == <<product, orders, pc, payload, product_map, priced, result,
          raised, attempts, oid_time, oid_rand, oid_inc>>

Calls == 1 .. NumCalls

\* ------------------------------------------------------------------ inputs
\* Product documents add_product can have stored (title, optional price):
\* 9.99, 5.00, 0.333 and a document without a price.
ProductInputs ==
  << [title |-> "A", has_price |-> TRUE,  price |-> 9990],
     [title |-> "B", has_price |-> TRUE,  price |-> 5000],
     [title |-> "C", has_price |-> TRUE,  price |-> 333],
     [title |-> "D", has_price |-> FALSE, price |-> 0] >>

\* Product documents used when several calls run concurrently.
ConcProductInputs ==
  { [title |-> "A", has_price |-> TRUE,  price |-> 9990],
    [title |-> "D", has_price |-> FALSE, price |-> 0] }

\* The catalogs add_product can have built from at most MaxProducts of these
\* documents, identifiers 1, 2, ... in the order the documents were added.
Catalogs ==
  { [i \in DOMAIN f |-> ProductInputs[f[i]]] :
      f \in UNION { [1 .. k -> DOMAIN ProductInputs] : k \in 0 .. MaxProducts } }

\* product_id strings: k > 0 is the lower-case hex spelling of ObjectId k,
\* -1 the upper-case spelling of ObjectId 1, 0 a string ObjectId() rejects
ProductRefs == (0 - 1) .. MaxProducts

Customers == {"ann"}

\* CartItem(product_id, quantity); the two spellings that never reach the
\* pricing loop come with quantity 1 only
CartItem ==
  [product_id : 1 .. MaxProducts, quantity : 1 .. MaxQty]
    \cup [product_id : ProductRefs \ (1 .. MaxProducts), quantity : {1}]

\* cart items used when several calls run concurrently: every call refers
\* to the same product
ConcCartItem == [product_id : {1}, quantity : {1}]

SeqsUpTo(S, n) == UNION { [1 .. k -> S] : k \in 0 .. n }

\* CheckoutRequest(customer_*, items)
CheckoutRequest == [customer : Customers, items : SeqsUpTo(CartItem, MaxItems)]

ConcCheckoutRequest ==
  [customer : Customers, items : SeqsUpTo(ConcCartItem, MaxConcItems)]

\* 5 random bytes of an ObjectId; 0 and 256 share their last byte
RandChoices == {0, 256}

\* ------------------------------------------------------------ pure helpers
Abs(n) == IF n < 0 THEN 0 - n ELSE n

\* bson accepts a string as an ObjectId only when it is 24 hex digits
WellFormed(pid) == pid # 0

\* ObjectId(i.product_id): the identifier a well-formed string denotes
ToObjectId(pid) == Abs(pid)

\* ---------------------------------------------------------- Python floats
\* A float (IEEE double, never negative here) is the natural number
\* value * 2^FracBits, written in limbs of LimbBits bits, least significant
\* first, without leading zero limbs; 0.0 is <<>>.  Every double between
\* 2^-37 and 2^37 is such a number with at most 53 significant bits.
Limb == 32768

LimbBits == 15

FracLimbs == 6

FracBits == FracLimbs * LimbBits

\* significant bits of a double
Mantissa == 53

Pow2Small == <<1, 2, 4, 8, 16, 32, 64, 128, 256, 512, 1024, 2048, 4096,
               8192, 16384>>

\* 2^k for k < LimbBits
Pow2(k) == Pow2Small[k + 1]

Zeros(n) == [i \in 1 .. n |-> 0]

RECURSIVE Strip(_)
Strip(a) ==
  IF a = <<>> THEN <<>>
  ELSE IF a[Len(a)] = 0 THEN Strip(SubSeq(a, 1, Len(a) - 1)) ELSE a

RECURSIVE BigFromInt(_)
BigFromInt(n) == IF n = 0 THEN <<>> ELSE <<n % Limb>> \o BigFromInt(n \div Limb)

RECURSIVE BigToInt(_)
BigToInt(a) == IF a = <<>> THEN 0 ELSE Head(a) + Limb * BigToInt(Tail(a))

RECURSIVE AddCarry(_, _, _)
AddCarry(a, b, c) ==
  IF a = <<>> /\ b = <<>> THEN (IF c = 0 THEN <<>> ELSE <<c>>)
  ELSE LET x == (IF a = <<>> THEN 0 ELSE Head(a))
                + (IF b = <<>> THEN 0 ELSE Head(b)) + c
       IN <<x % Limb>> \o AddCarry(IF a = <<>> THEN <<>> ELSE Tail(a),
                                   IF b = <<>> THEN <<>> ELSE Tail(b),
                                   x \div Limb)

BigAdd(a, b) == AddCarry(a, b, 0)

RECURSIVE MulCarry(_, _, _)
MulCarry(a, k, c) ==
  IF a = <<>> THEN BigFromInt(c)
  ELSE LET x == Head(a) * k + c
       IN <<x % Limb>> \o MulCarry(Tail(a), k, x \div Limb)

\* a * k for 0 <= k < Limb
BigMulSmall(a, k) == Strip(MulCarry(a, k, 0))

RECURSIVE BigMulRaw(_, _)
BigMulRaw(a, b) ==
  IF b = <<>> THEN <<>>
  ELSE BigAdd(MulCarry(a, Head(b), 0), <<0>> \o BigMulRaw(a, Tail(b)))

BigMul(a, b) == Strip(BigMulRaw(a, b))

\* quotient and remainder of the limbs i .. Len(a) of a by k < Limb
RECURSIVE DivStep(_, _, _)
DivStep(a, k, i) ==
  IF i > Len(a) THEN [q |-> <<>>, r |-> 0]
  ELSE LET h == DivStep(a, k, i + 1)
           cur == h.r * Limb + a[i]
       IN [q |-> <<cur \div k>> \o h.q, r |-> cur % k]

RECURSIVE BitLenSmall(_)
BitLenSmall(n) == IF n = 0 THEN 0 ELSE 1 + BitLenSmall(n \div 2)

BitLen(a) ==
  IF a = <<>> THEN 0 ELSE LimbBits * (Len(a) - 1) + BitLenSmall(a[Len(a)])

\* bit i of a (bit 0 is the least significant)
GetBit(a, i) ==
  LET k == (i \div LimbBits) + 1
  IN IF k > Len(a) THEN 0 ELSE (a[k] \div Pow2(i % LimbBits)) % 2

\* some bit of a below bit s is set
AnyBelow(a, s) ==
  LET k == (s \div LimbBits) + 1
  IN \/ \E j \in 1 .. Len(a) : j < k /\ a[j] # 0
     \/ k <= Len(a) /\ a[k] % Pow2(s % LimbBits) # 0

\* a with the bits below bit s cleared
ClearBelow(a, s) ==
  LET k == (s \div LimbBits) + 1
  IN [j \in 1 .. Len(a) |->
        IF j < k THEN 0
        ELSE IF j = k THEN a[j] - (a[j] % Pow2(s % LimbBits))
        ELSE a[j]]

BigPow2(s) == Zeros(s \div LimbBits) \o <<Pow2(s % LimbBits)>>

\* The double nearest to a (plus a fraction below one unit when sticky),
\* ties to even: what every float operation does to its exact result.
RoundToDouble(a, sticky) ==
  LET len == BitLen(a)
      s == len - Mantissa
  IN IF s <= 0 THEN a
     ELSE LET up == /\ GetBit(a, s - 1) = 1
                    /\ (sticky \/ AnyBelow(a, s - 1) \/ GetBit(a, s) = 1)
              kept == ClearBelow(a, s)
          IN IF up THEN BigAdd(kept, BigPow2(s)) ELSE kept

\* The double nearest to n / d, for natural n and 0 < d < Limb: float of a
\* decimal literal.
FloatOfRatio(n, d) ==
  LET h == DivStep(Zeros(FracLimbs) \o BigFromInt(n), d, 1)
  IN RoundToDouble(Strip(h.q), h.r # 0)

\* the float of a decimal amount given in thousandths
ToFloat(x) == FloatOfRatio(x, 1000)

\* x + y
FAdd(x, y) == RoundToDouble(BigAdd(x, y), FALSE)

\* x * n for an int n
FMulInt(x, n) == RoundToDouble(BigMulSmall(x, n), FALSE)

\* x * y
FMul(x, y) ==
  LET r == RoundToDouble(BigMul(x, y), FALSE)
  IN IF Len(r) <= FracLimbs THEN <<>> ELSE SubSeq(r, FracLimbs + 1, Len(r))

\* variant: round(x, 2) cuts off instead of rounding
Round2Floor(x) ==
  LET h == BigMulSmall(x, 100)
  IN CentStep * BigToInt(IF Len(h) <= FracLimbs THEN <<>>
                         ELSE SubSeq(h, FracLimbs + 1, Len(h)))

\* round(x, 2) of a float x, the result (a decimal of two places) in
\* thousandths: the hundredth nearest to the exact binary value of x, ties
\* to even.
Round2(x) ==
  LET h == BigMulSmall(x, 100)
      q == BigToInt(IF Len(h) <= FracLimbs THEN <<>>
                    ELSE SubSeq(h, FracLimbs + 1, Len(h)))
      up == /\ GetBit(h, FracBits - 1) = 1
            /\ (AnyBelow(h, FracBits - 1) \/ q % 2 = 1)
  IN CentStep * (IF up THEN q + 1 ELSE q)

\* tax_rate = 0.1
TaxRate == FloatOfRatio(1, TaxDivisor)

\* round(subtotal * tax_rate, 2), result in thousandths
TaxOf(subtotal) == Round2(FMul(subtotal, TaxRate))

\* round(subtotal + tax, 2), tax in thousandths
TotalOf(subtotal, tax) == Round2(FAdd(subtotal, ToFloat(tax)))

\* float(prod.get("price", 0)), written as the decimal it is the float of
UnitPrice(prod) == IF prod.has_price THEN prod.price ELSE 0

\* the prices a product document can carry, 0 for a document without one
UnitPrices == { UnitPrice(ProductInputs[i]) : i \in DOMAIN ProductInputs }

\* unit_price * item.quantity as floats, tabulated over the prices and
\* quantities of the inputs
LineTotals ==
  [p \in UnitPrices |-> [q \in 1 .. MaxQty |-> FMulInt(ToFloat(p), q)]]

\* variant: the quantity is left out of line_total
LineItemNoQty(item, prod) ==
  [product_id |-> item.product_id,
   title      |-> prod.title,
   quantity   |-> item.quantity,
   unit_price |-> UnitPrice(prod),
   line_total |-> LineTotals[UnitPrice(prod)][1]]

\* one entry of line_items
LineItem(item, prod) ==
  [product_id |-> item.product_id,
   title      |-> prod.title,
   quantity   |-> item.quantity,
   unit_price |-> UnitPrice(prod),
   line_total |-> LineTotals[UnitPrice(prod)][item.quantity]]

\* the loop over payload.items: one line item per cart item, in order
LineItems(items, pmap) ==
  [k \in 1 .. Len(items) |-> LineItem(items[k], pmap[items[k].product_id])]

\* subtotal += line_total, over the first n line totals
RECURSIVE SubtotalOf(_, _)
SubtotalOf(line_totals, n) ==
  IF n = 0 THEN <<>> ELSE FAdd(SubtotalOf(line_totals, n - 1), line_totals[n])

\* the amounts the handler derives from the line totals of a cart: the float
\* subtotal, round(subtotal, 2), tax and total
Totals(line_totals) ==
  LET subtotal == SubtotalOf(line_totals, Len(line_totals))
      tax == TaxOf(subtotal)
  IN [subtotal |-> subtotal,
      subtotal_rounded |-> Round2(subtotal),
      tax |-> tax,
      total |-> TotalOf(subtotal, tax)]

\* the (unit_price, quantity) pairs a line item can carry
PricedLines == UnitPrices \X (1 .. MaxQty)

\* the longest cart of the inputs
MaxCart == IF MaxItems >= MaxConcItems THEN MaxItems ELSE MaxConcItems

\* Totals, tabulated over the carts of the inputs, a cart given by the
\* (unit_price, quantity) of its lines
TotalsTable ==
  [ks \in SeqsUpTo(PricedLines, MaxCart) |->
     Totals([k \in DOMAIN ks |-> LineTotals[ks[k][1]][ks[k][2]]])]

HexDigits == <<"0", "1", "2", "3", "4", "5", "6", "7",
               "8", "9", "a", "b", "c", "d", "e", "f">>

\* n as w hex digits, most significant first
RECURSIVE Hex(_, _)
Hex(n, w) ==
  IF w = 0 THEN <<>> ELSE Append(Hex(n \div 16, w - 1), HexDigits[(n % 16) + 1])

\* str(ObjectId): 4-byte timestamp, 5 random bytes, 3-byte counter
OidStr(oid) == Hex(oid.time, 8) \o Hex(oid.rand, 10) \o Hex(oid.inc, 6)

\* s[-n:]
LastChars(s, n) == IF Len(s) <= n THEN s ELSE SubSeq(s, Len(s) - n + 1, Len(s))

\* f"INV-{ObjectId()}"[-8:]
InvoiceNumber(oid) == LastChars(<<"I", "N", "V", "-">> \o OidStr(oid), InvoiceLen)

\* ------------------------------------------------------------- empty values
EmptyMap == [i \in {} |-> 0]

NoPayload == [customer |-> "", items |-> <<>>]

NoPriced == [line_items |-> <<>>, subtotal |-> <<>>, subtotal_rounded |-> 0,
             tax |-> 0, total |-> 0,
             invoice_number |-> <<>>]

NoBody == [order_id |-> 0, invoice_number |-> <<>>, subtotal |-> 0,
           tax |-> 0, total |-> 0, items |-> <<>>]

NoResult == [status |-> 0, detail |-> "", body |-> NoBody]

NoAttempts == [lookup |-> 0, insert |-> 0]

\* HTTPException(status_code, detail)
HttpError(status, detail) == [status |-> status, detail |-> detail, body |-> NoBody]

\* ------------------------------------------------------------------- state
\* The part of Init both specifications share: no order yet, every handler
\* idle, a freshly started process.
InitCommon ==
  /\ orders = <<>>
  /\ pc = [c \in Calls |-> "idle"]
  /\ payload = [c \in Calls |-> NoPayload]
  /\ product_map = [c \in Calls |-> EmptyMap]
  /\ priced = [c \in Calls |-> NoPriced]
  /\ result = [c \in Calls |-> NoResult]
  /\ raised = [c \in Calls |-> "none"]
  /\ attempts = [c \in Calls |-> NoAttempts]
  /\ oid_time = 0

\* Concurrent specification: the catalog starts empty and is filled by
\* add_product; one seed of the ObjectId generator.
Init ==
  /\ InitCommon
  /\ product = EmptyMap
  /\ oid_rand = 0
  /\ oid_inc = 0

\* Single-call specification: any catalog add_product can have built, one
\* seed of the ObjectId generator.
InitCart ==
  /\ InitCommon
  /\ product \in Catalogs
  /\ oid_rand = 0
  /\ oid_inc = 0

\* Invoice specification: a catalog of one product; the process seeds its
\* ObjectId generator at random.
InitInvoice ==
  /\ InitCommon
  /\ product \in { [i \in {1} |-> doc] : doc \in ConcProductInputs }
  /\ oid_rand \in RandChoices
  /\ oid_inc \in 0 .. MaxIncStart

\* ----------------------------------------------------------------- actions
\* add_product: create_document("product", product) stores the document
\* under a newly assigned identifier.
AddProduct(doc) ==
  /\ Cardinality(DOMAIN product) < MaxProducts
  /\ product' = [i \in DOMAIN product \cup {Cardinality(DOMAIN product) + 1} |->
                   IF i \in DOMAIN product THEN product[i] ELSE doc]
  /\ UNCHANGED <<orders, pc, payload, product_map, priced, result, raised,
                 attempts, oid_time, oid_rand, oid_inc>>

\* The dispatcher hands a validated CheckoutRequest to checkout.
Begin(c, req) ==
  /\ pc[c] = "idle"
  /\ pc' = [pc EXCEPT ![c] = "lookup"]
  /\ payload' = [payload EXCEPT ![c] = req]
  /\ UNCHANGED <<product, orders, product_map, priced, result, raised,
                 attempts, oid_time, oid_rand, oid_inc>>

\* A non-HTTP exception (status 0 marks "not an HTTPException")
OtherError(detail) == [status |-> 0, detail |-> detail, body |-> NoBody]

\* variant: every exception, HTTPException included, becomes a 500
HandledAll500(exc) == [status |-> 500, detail |-> exc.detail, body |-> NoBody]

\* A request arrives at an idle handler with one of the given payloads.
Receive(c, reqs) == pc[c] = "idle" /\ \E req \in reqs : Begin(c, req)

\* What the except clauses make of an exception raised inside the try block:
\* an HTTPException is re-raised as it is, anything else becomes a 500.
Handled(exc) ==
  IF exc.status # 0 THEN exc ELSE HttpError(500, exc.detail)

\* product_ids = [ObjectId(i.product_id) ...]; find({"_id": {"$in": ...}});
\* product_map[str(p["_id"])] = p.   A malformed product_id makes ObjectId()
\* raise before the collection is queried.
Lookup(c) ==
  /\ pc[c] = "lookup"
  /\ attempts' = [attempts EXCEPT ![c].lookup = @ + 1]
  /\ LET items == payload[c].items
         bad == \E k \in 1 .. Len(items) : ~WellFormed(items[k].product_id)
         product_ids == [k \in 1 .. Len(items) |-> ToObjectId(items[k].product_id)]
         wanted == { product_ids[k] : k \in 1 .. Len(items) }
     IN IF bad
        THEN /\ result' = [result EXCEPT ![c] = Handled(OtherError("InvalidId"))]
             /\ raised' = [raised EXCEPT ![c] = "invalid_id"]
             /\ pc' = [pc EXCEPT ![c] = "done"]
             /\ UNCHANGED product_map
        ELSE /\ product_map' = [product_map EXCEPT ![c] =
                                  [i \in wanted \cap DOMAIN product |-> product[i]]]
             /\ pc' = [pc EXCEPT ![c] = "price"]
             /\ UNCHANGED <<result, raised>>
  /\ UNCHANGED <<product, orders, payload, priced, oid_time, oid_rand, oid_inc>>

\* The find itself raises (database unreachable or not initialised).
LookupFails(c) ==
  /\ pc[c] = "lookup"
  /\ \A k \in 1 .. Len(payload[c].items) : WellFormed(payload[c].items[k].product_id)
  /\ attempts' = [attempts EXCEPT ![c].lookup = @ + 1]
  /\ result' = [result EXCEPT ![c] = Handled(OtherError("find failed"))]
  /\ raised' = [raised EXCEPT ![c] = "find"]
  /\ pc' = [pc EXCEPT ![c] = "done"]
  /\ UNCHANGED <<product, orders, payload, product_map, priced,
                 oid_time, oid_rand, oid_inc>>

\* variant: an empty cart is rejected as well
ProductsNotFoundOrEmpty(pmap, items) ==
  Cardinality(DOMAIN pmap) # Len(items) \/ Len(items) = 0

\* if len(product_map) != len(product_ids): raise HTTPException(400, ...)
ProductsNotFound(pmap, items) == Cardinality(DOMAIN pmap) # Len(items)

\* ObjectId(): the next identifier of this process's generator
NewObjectId == [time |-> oid_time, rand |-> oid_rand, inc |-> oid_inc]

\* The check, the pricing loop, tax and total, and the invoice number.
\* product_map.get(item.product_id) is None for a product_id that is not the
\* lower-case spelling of a resolved identifier, and prod.get then raises.
Price(c) ==
  /\ pc[c] = "price"
  /\ LET items == payload[c].items
         pmap == product_map[c]
     IN IF ProductsNotFound(pmap, items)
        THEN /\ result' = [result EXCEPT ![c] =
                  Handled(HttpError(400, "One or more products not found"))]
             /\ pc' = [pc EXCEPT ![c] = "done"]
             /\ UNCHANGED <<priced, raised, oid_inc>>
        ELSE IF \E k \in 1 .. Len(items) : items[k].product_id \notin DOMAIN pmap
        THEN /\ result' = [result EXCEPT ![c] = Handled(OtherError("AttributeError"))]
             /\ raised' = [raised EXCEPT ![c] = "price"]
             /\ pc' = [pc EXCEPT ![c] = "done"]
             /\ UNCHANGED <<priced, oid_inc>>
        ELSE LET line_items == LineItems(items, pmap)
                 t == TotalsTable[[k \in 1 .. Len(line_items) |->
                      <<line_items[k].unit_price, line_items[k].quantity>>]]
             IN /\ priced' = [priced EXCEPT ![c] =
                      [line_items |-> line_items,
                       subtotal |-> t.subtotal,
                       subtotal_rounded |-> t.subtotal_rounded,
                       tax |-> t.tax,
                       total |-> t.total,
                       invoice_number |-> InvoiceNumber(NewObjectId)]]
                /\ oid_inc' = (oid_inc + 1) % IncMod
                /\ pc' = [pc EXCEPT ![c] = "insert"]
                /\ UNCHANGED <<result, raised>>
  /\ UNCHANGED <<product, orders, payload, product_map, attempts,
                 oid_time, oid_rand>>

\* Order(...): the document handed to create_document
OrderDoc(c) ==
  [customer |-> payload[c].customer,
   items |-> priced[c].line_items,
   subtotal |-> priced[c].subtotal_rounded,
   tax |-> priced[c].tax,
   total |-> priced[c].total,
   invoice_number |-> priced[c].invoice_number]

\* create_document("order", order): the document is stored under a newly
\* assigned identifier, which is returned.  by is the call that stored it.
CreateDocument(doc, c) ==
  [id |-> Len(orders) + 1, doc |-> doc, by |-> c]

\* variant: the identifier returned is not the one create_document assigned
ResponseBodyStaleId(c, order_id) ==
  [order_id |-> Len(orders),
   invoice_number |-> priced[c].invoice_number,
   subtotal |-> priced[c].subtotal_rounded,
   tax |-> priced[c].tax,
   total |-> priced[c].total,
   items |-> priced[c].line_items]

\* the dict checkout returns
ResponseBody(c, order_id) ==
  [order_id |-> order_id,
   invoice_number |-> priced[c].invoice_number,
   subtotal |-> priced[c].subtotal_rounded,
   tax |-> priced[c].tax,
   total |-> priced[c].total,
   items |-> priced[c].line_items]

\* variant: an exception after the document was stored
InsertThenFail(c) ==
  /\ pc[c] = "insert"
  /\ attempts' = [attempts EXCEPT ![c].insert = @ + 1]
  /\ orders' = Append(orders, CreateDocument(OrderDoc(c), c))
  /\ result' = [result EXCEPT ![c] = Handled(OtherError("after insert"))]
  /\ pc' = [pc EXCEPT ![c] = "done"]
  /\ UNCHANGED <<product, payload, product_map, priced, raised,
                 oid_time, oid_rand, oid_inc>>

\* order_id = create_document("order", order); return {...}
Insert(c) ==
  /\ pc[c] = "insert"
  /\ attempts' = [attempts EXCEPT ![c].insert = @ + 1]
  /\ LET stored == CreateDocument(OrderDoc(c), c)
     IN /\ orders' = Append(orders, stored)
        /\ result' = [result EXCEPT ![c] =
              [status |-> 200, detail |-> "", body |-> ResponseBody(c, stored.id)]]
  /\ pc' = [pc EXCEPT ![c] = "done"]
  /\ UNCHANGED <<product, payload, product_map, priced, raised,
                 oid_time, oid_rand, oid_inc>>

\* Order(...) or create_document raises: nothing is stored.
InsertFails(c) ==
  /\ pc[c] = "insert"
  /\ attempts' = [attempts EXCEPT ![c].insert = @ + 1]
  /\ result' = [result EXCEPT ![c] = Handled(OtherError("insert failed"))]
  /\ raised' = [raised EXCEPT ![c] = "insert"]
  /\ pc' = [pc EXCEPT ![c] = "done"]
  /\ UNCHANGED <<product, orders, payload, product_map, priced,
                 oid_time, oid_rand, oid_inc>>

\* uvicorn.run: the server process is started again between requests; the
\* new process seeds its ObjectId generator afresh.
Restart ==
  /\ oid_time < MaxRestarts
  /\ \A c \in Calls : pc[c] \in {"idle", "done"}
  /\ oid_time' = oid_time + 1
  /\ oid_rand' \in RandChoices
  /\ oid_inc' \in 0 .. MaxIncStart
  /\ UNCHANGED <<product, orders, pc, payload, product_map, priced, result,
                 raised, attempts>>

Step(c) ==
  \/ Lookup(c)
  \/ LookupFails(c)
  \/ Price(c)
  \/ Insert(c)
  \/ InsertFails(c)

Next ==
  \/ \E doc \in ConcProductInputs : AddProduct(doc)
  \/ \E c \in Calls : Receive(c, ConcCheckoutRequest)
  \/ \E c \in Calls : Step(c)

Spec == Init /\ [][Next]_vars

\* Concurrent calls in a server that may be started again.
NextInvoice ==
  \/ \E c \in Calls : Receive(c, ConcCheckoutRequest)
  \/ \E c \in Calls : Step(c)
  \/ Restart

SpecInvoice == InitInvoice /\ [][NextInvoice]_vars

\* One checkout call over the full range of carts and catalogs.
NextCart ==
  \/ Receive(1, CheckoutRequest)
  \/ Step(1)

SpecCart == InitCart /\ [][NextCart]_vars

\* ------------------------------------------------------- claim vocabulary
Done(c) == pc[c] = "done"

Succeeded(c) == Done(c) /\ result[c].status = 200

OrdersBy(c) == { i \in 1 .. Len(orders) : orders[i].by = c }

\* the product reference identifies a product of the catalog
Identifies(pid) == WellFormed(pid) /\ ToObjectId(pid) \in DOMAIN product

HasUnknownRef(c) ==
  \E k \in 1 .. Len(payload[c].items) : ~Identifies(payload[c].items[k].product_id)

\* every reference of the cart was resolved by the call's lookup
AllResolved(c) ==
  /\ pc[c] \in {"price", "insert", "done"}
  /\ raised[c] # "find"
  /\ \A k \in 1 .. Len(payload[c].items) :
        /\ WellFormed(payload[c].items[k].product_id)
        /\ ToObjectId(payload[c].items[k].product_id) \in DOMAIN product_map[c]

NotFound400(c) ==
  /\ result[c].status = 400
  /\ result[c].detail = "One or more products not found"

\* C1: a finished call whose cart holds a product_id that identifies no
\* catalog product, and whose database lookup did not itself fail, ended with
\* 400 "One or more products not found" and stored no order.
C1_Claim ==
  \A c \in Calls : (Done(c) /\ HasUnknownRef(c) /\ raised[c] # "find") =>
      (NotFound400(c) /\ OrdersBy(c) = {})

\* C2: a call whose references were all resolved by its lookup, repeated
\* references included, does not end with "products not found".
C2_Claim ==
  \A c \in Calls : (Done(c) /\ AllResolved(c)) => ~NotFound400(c)

\* C3: the order collection holds exactly one order per successful call and
\* none for a call that ended in an error, so its size is the number of
\* successful calls.
C3_OneOrderPerSuccess ==
  /\ \A c \in Calls :
        Cardinality(OrdersBy(c)) = IF result[c].status = 200 THEN 1 ELSE 0
  /\ Len(orders) = Cardinality({ c \in Calls : Succeeded(c) })

\* one call succeeded, one failed at the insert, one order stored
C3_Witness ==
  \E c, d \in Calls :
      /\ Succeeded(c)
      /\ Done(d) /\ result[d].status = 500 /\ raised[d] = "insert"
      /\ Len(orders) = 1

\* the sum of unit price x quantity over the cart, from cart and catalog
RECURSIVE CartSum(_, _)
CartSum(items, n) ==
  IF n = 0 THEN 0
  ELSE CartSum(items, n - 1)
         + UnitPrice(product[ToObjectId(items[n].product_id)]) * items[n].quantity

\* x is y rounded to a whole hundredth (nearest; either neighbour on a tie)
IsRounded2(x, y) ==
  /\ x % CentStep = 0
  /\ 2 * x - 2 * y <= CentStep
  /\ 2 * y - 2 * x <= CentStep

\* tax is a tenth of y rounded to a whole hundredth
IsTaxOf(tax, y) ==
  /\ tax % CentStep = 0
  /\ 2 * TaxDivisor * tax - 2 * y <= CentStep * TaxDivisor
  /\ 2 * y - 2 * TaxDivisor * tax <= CentStep * TaxDivisor

\* the monetary fields of a persisted order or of a response body
Amounts(r) == [subtotal |-> r.subtotal, tax |-> r.tax, total |-> r.total]

\* C4 (as stated): subtotal is the sum of unit price x quantity, tax is
\* subtotal x 0.10 rounded to 2 places, total is subtotal + tax rounded to 2
\* places, in every persisted order and its response.
C4_Original ==
  \A c \in Calls : Succeeded(c) =>
     \A i \in OrdersBy(c) :
        LET sum == CartSum(payload[c].items, Len(payload[c].items))
            o == orders[i].doc
        IN /\ o.subtotal = sum
           /\ IsTaxOf(o.tax, o.subtotal)
           /\ IsRounded2(o.total, o.subtotal + o.tax)
           /\ Amounts(result[c].body) = Amounts(o)

\* C4 (amended): subtotal is the sum rounded to 2 places; tax is the
\* unrounded sum x 0.10 rounded to 2 places; total is the unrounded sum plus
\* tax rounded to 2 places. Rounding is to the nearest hundredth; a decimal
\* value halfway between two hundredths goes to either, as the float decides.
C4_Amended ==
  \A c \in Calls : Succeeded(c) =>
     \A i \in OrdersBy(c) :
        LET sum == CartSum(payload[c].items, Len(payload[c].items))
            o == orders[i].doc
        IN /\ IsRounded2(o.subtotal, sum)
           /\ IsTaxOf(o.tax, sum)
           /\ IsRounded2(o.total, sum + o.tax)
           /\ Amounts(result[c].body) = Amounts(o)

\* prices 9.99 and 5.00, quantities 3 and 1: 34.97, 3.50, 38.47
C4_Witness ==
  \E c \in Calls :
      /\ Succeeded(c)
      /\ Len(payload[c].items) = 2
      /\ result[c].body.items[1].unit_price = 9990
      /\ result[c].body.items[1].quantity = 3
      /\ result[c].body.items[2].unit_price = 5000
      /\ result[c].body.items[2].quantity = 1
      /\ Amounts(result[c].body) = [subtotal |-> 34970, tax |-> 3500, total |-> 38470]
      /\ \E i \in OrdersBy(c) : Amounts(orders[i].doc) = Amounts(result[c].body)

\* C5: on success the returned and the persisted line items are one per cart
\* item in cart order, with the item's product_id and quantity, the product's
\* title and price (0 when it has none) and line_total = unit_price x quantity.
C5_LineItems ==
  \A c \in Calls : Succeeded(c) =>
     LET items == payload[c].items
         lines == result[c].body.items
     IN /\ Len(lines) = Len(items)
        /\ \A k \in 1 .. Len(items) :
              LET prod == product[ToObjectId(items[k].product_id)]
              IN /\ lines[k].product_id = items[k].product_id
                 /\ lines[k].quantity = items[k].quantity
                 /\ lines[k].title = prod.title
                 /\ lines[k].unit_price = IF prod.has_price THEN prod.price ELSE 0
                 /\ lines[k].line_total =
                       LineTotals[lines[k].unit_price][items[k].quantity]
        /\ \A i \in OrdersBy(c) : orders[i].doc.items = lines

\* a successful two-item cart, quantities above 1, one product without price
C5_Witness ==
  \E c \in Calls :
      /\ Succeeded(c)
      /\ Len(result[c].body.items) = 2
      /\ result[c].body.items[1].quantity = 2
      /\ result[c].body.items[1].line_total = LineTotals[9990][2]
      /\ ~product[ToObjectId(payload[c].items[2].product_id)].has_price
      /\ result[c].body.items[2].unit_price = 0
      /\ OrdersBy(c) # {}

\* C6: the order identifiers returned by successful calls are pairwise
\* distinct, and each identifies exactly the order its call inserted.
C6_DistinctOrderIds ==
  \A c \in Calls : Succeeded(c) =>
     /\ \A d \in Calls : (Succeeded(d) /\ d # c) =>
           result[d].body.order_id # result[c].body.order_id
     /\ { i \in 1 .. Len(orders) : orders[i].id = result[c].body.order_id } = OrdersBy(c)
     /\ Cardinality(OrdersBy(c)) = 1

\* two successful calls
C6_Witness ==
  \E c, d \in Calls : c # d /\ Succeeded(c) /\ Succeeded(d) /\ Len(orders) = 2

\* C7: no two persisted orders carry the same invoice number.
C7_Claim ==
  \A i, j \in 1 .. Len(orders) :
     i # j => orders[i].doc.invoice_number # orders[j].doc.invoice_number

\* C8: a finished call ended with exactly one of 200, 400, 500; a failure
\* raised during lookup or persistence gives 500; the failed product check is
\* delivered as 400; a success stored its order; no step was attempted twice.
C8_Outcomes ==
  \A c \in Calls :
     /\ attempts[c].lookup <= 1 /\ attempts[c].insert <= 1
     /\ Done(c) =>
          /\ result[c].status \in {200, 400, 500}
          /\ (raised[c] # "none") => result[c].status = 500
          /\ (raised[c] = "none" /\ ProductsNotFound(product_map[c], payload[c].items))
                => (NotFound400(c) /\ attempts[c].insert = 0)
          /\ (result[c].status = 200) <=> (OrdersBy(c) # {})
          /\ (result[c].status = 400) => NotFound400(c)

\* the product check failed after one lookup and the call ended with 400
C8_Witness ==
  \E c \in Calls :
      /\ Done(c) /\ NotFound400(c)
      /\ attempts[c] = [lookup |-> 1, insert |-> 0]
      /\ payload[c].items # <<>>

\* C9: a finished call whose lookup and insert did not raise and whose cart
\* references were all resolved succeeded and stored one order, whatever the
\* other calls did.
C9_Claim ==
  \A c \in Calls : (Done(c) /\ raised[c] = "none" /\ AllResolved(c)) =>
      (Succeeded(c) /\ Cardinality(OrdersBy(c)) = 1)

\* C10: a call with an empty cart is never rejected as "products not found",
\* and unless lookup or insert raised it succeeds and stores one order with
\* no line items and subtotal = tax = total = 0.
C10_EmptyCart ==
  \A c \in Calls : (Done(c) /\ payload[c].items = <<>>) =>
      /\ result[c].status # 400
      /\ (raised[c] = "none") =>
            /\ Succeeded(c)
            /\ Cardinality(OrdersBy(c)) = 1
            /\ \A i \in OrdersBy(c) :
                  /\ orders[i].doc.items = <<>>
                  /\ Amounts(orders[i].doc) = [subtotal |-> 0, tax |-> 0, total |-> 0]
            /\ result[c].body.items = <<>>
            /\ Amounts(result[c].body) = [subtotal |-> 0, tax |-> 0, total |-> 0]

\* an empty cart checked out against a non-empty catalog
C10_Witness ==
  \E c \in Calls :
      /\ Succeeded(c) /\ payload[c].items = <<>>
      /\ Len(orders) = 1 /\ orders[1].doc.items = <<>>
      /\ DOMAIN product # {}

====
